---- MODULE Spec2Model ----
(***************************************************************************)
(* Model of bot/exts/source.py: the BotSource cog of sir-robin.            *)
(*                                                                         *)
(* Text is a sequence of fragments.  Text the code computes (file paths,   *)
(* decimal numbers, descriptions, names) is held character by character;   *)
(* literal text of the code and the configured repository URL are held as  *)
(* one fragment each.  Concatenation of text is \o.                        *)
(***************************************************************************)
EXTENDS Integers, Sequences, FiniteSets, TLC

VARIABLES host, cwd, item, pc, exc, link, embed, sent, lookups

vars == <<host, cwd, item, pc, exc, link, embed, sent, lookups>>

(***************************************************************************)
(* Bounds of the model.                                                    *)
(***************************************************************************)
MaxLine == 10       \* largest first line number of a definition
MaxLines == 2       \* largest number of source lines of a definition
MaxDescLen == 3     \* longest cog description, in characters
MaxWrap == 1        \* deepest chain of decorator wrappers around a callback

(***************************************************************************)
(* Values of the host language.                                            *)
(***************************************************************************)
None == -1

Hosts == {"posix", "windows"}

Digits == <<"0", "1", "2", "3", "4", "5", "6", "7", "8", "9">>

\* str(n) of a non-negative int, as f"{n}" formats it
RECURSIVE Str(_)
Str(n) ==
    IF n < 10 THEN <<Digits[n + 1]>>
    ELSE Str(n \div 10) \o <<Digits[(n % 10) + 1]>>

\* sep.join(parts)
RECURSIVE Join(_, _)
Join(parts, sep) ==
    IF parts = <<>> THEN <<>>
    ELSE IF Len(parts) = 1 THEN parts[1]
    ELSE parts[1] \o <<sep>> \o Join(Tail(parts), sep)

\* the non-empty runs of s between fragments of seps
RECURSIVE Split(_, _, _)
Split(s, seps, cur) ==
    IF s = <<>> THEN (IF cur = <<>> THEN <<>> ELSE <<cur>>)
    ELSE IF Head(s) \in seps
         THEN (IF cur = <<>> THEN <<>> ELSE <<cur>>) \o Split(Tail(s), seps, <<>>)
         ELSE Split(Tail(s), seps, Append(cur, Head(s)))

IsPrefix(p, s) == Len(p) <= Len(s) /\ SubSeq(s, 1, Len(p)) = p

\* str.splitlines(): lines end at \n, \r or \r\n; no empty last line
RECURSIVE SplitLinesFrom(_, _)
SplitLinesFrom(s, cur) ==
    IF s = <<>> THEN (IF cur = <<>> THEN <<>> ELSE <<cur>>)
    ELSE IF Head(s) = "\n" THEN <<cur>> \o SplitLinesFrom(Tail(s), <<>>)
    ELSE IF Head(s) = "\r"
         THEN <<cur>> \o SplitLinesFrom(
                  IF Len(s) > 1 /\ s[2] = "\n" THEN Tail(Tail(s)) ELSE Tail(s), <<>>)
    ELSE SplitLinesFrom(Tail(s), Append(cur, Head(s)))

splitlines(s) == SplitLinesFrom(s, <<>>)

(***************************************************************************)
(* pathlib: a path is its anchor and its parts; the host decides which     *)
(* characters separate parts.                                              *)
(***************************************************************************)
Separators(h) == IF h = "windows" THEN {"\\", "/"} ELSE {"/"}

sep(h) == IF h = "windows" THEN "\\" ELSE "/"

Anchor(h) == IF h = "windows" THEN <<"C:", "\\">> ELSE <<"/">>

\* the host's spelling of the absolute path with these parts
HostStr(h, parts) == Anchor(h) \o Join(parts, sep(h))

\* Path(s)
Path(h, s) ==
    IF IsPrefix(Anchor(h), s)
    THEN [anchor |-> Anchor(h),
          parts |-> Split(SubSeq(s, Len(Anchor(h)) + 1, Len(s)), Separators(h), <<>>)]
    ELSE [anchor |-> <<>>, parts |-> Split(s, Separators(h), <<>>)]

\* PurePath.relative_to(other): ValueError unless other is an ancestor
relative_to(p, other) ==
    IF p.anchor = other.anchor /\ IsPrefix(other.parts, p.parts)
    THEN [exc |-> "none",
          path |-> [anchor |-> <<>>,
                    parts |-> SubSeq(p.parts, Len(other.parts) + 1, Len(p.parts))]]
    ELSE [exc |-> "ValueError", path |-> [anchor |-> <<>>, parts |-> <<>>]]

\* as_posix that keeps the host's separator, as str(path) does
C6_as_posix_HostSep(h, p) == Join(p.parts, sep(h))

\* PurePath.as_posix() of a relative path: the host separator becomes "/"
as_posix(h, p) == Join(p.parts, "/")

(***************************************************************************)
(* The process: files of the installation, working directories.            *)
(***************************************************************************)
app == <<"a", "p", "p">>
bot == <<"b", "o", "t">>
exts == <<"e", "x", "t", "s">>
source_py == <<"s", "o", "u", "r", "c", "e", ".", "p", "y">>
deco_py == <<"d", "e", "c", "o", ".", "p", "y">>
lib == <<"l", "i", "b">>
help_py == <<"h", "e", "l", "p", ".", "p", "y">>

\* source files of the bot, under the installation root
BotFiles == {<<app, bot, exts, source_py>>, <<app, bot, deco_py>>}

\* source files of installed dependencies, outside the installation root
LibFiles == {<<lib, help_py>>}

Files == BotFiles \cup LibFiles

\* Path.cwd() of the process
Cwds == {<<app>>, <<app, bot>>}

\* Client.github_bot_repo: configuration text, set outside this file and
\* never taken apart here
GithubBotRepo == <<"{Client.github_bot_repo}">>

(***************************************************************************)
(* Objects the command is asked about.                                     *)
(*                                                                         *)
(* A code object carries its file name and first line; retrievable says    *)
(* whether the lines of that file can be read.  A class carries the file   *)
(* of its module (NoFile when the module has none), whether that module is *)
(* __main__, and whether its definition is found in the file.              *)
(***************************************************************************)
NoFile == <<>>

StaticCodes(h) ==
    {[kind |-> "code", co_filename |-> HostStr(h, f), co_firstlineno |-> n,
      nlines |-> k, retrievable |-> TRUE] :
        f \in Files, n \in 1..MaxLine, k \in 1..MaxLines}

\* a function made by exec/eval: its file name is "<string>", no lines
DynamicCodes ==
    {[kind |-> "code", co_filename |-> <<"<string>">>, co_firstlineno |-> 1,
      nlines |-> 1, retrievable |-> FALSE]}

Codes(h) == StaticCodes(h) \cup DynamicCodes

\* the inner function of a decorator that wraps a callback
WrapperCode(h) ==
    [kind |-> "code", co_filename |-> HostStr(h, <<app, bot, deco_py>>),
     co_firstlineno |-> 3, nlines |-> 4, retrievable |-> TRUE]

\* a callback is the chain f, f.__wrapped__, ..., the original function last
Callbacks(h) ==
    {[i \in 1..d |-> WrapperCode(h)] \o <<c>> : d \in 0..MaxWrap, c \in Codes(h)}

StaticClasses(h) ==
    {[kind |-> "class", module_file |-> HostStr(h, f), module_main |-> FALSE,
      found |-> TRUE, firstlineno |-> n, nlines |-> k] :
        f \in Files, n \in 1..MaxLine, k \in 1..MaxLines}

\* a class made at run time: by type() in a module that has a file, or by
\* exec/eval in a namespace whose module has no file
DynamicClasses(h) ==
    {[kind |-> "class", module_file |-> HostStr(h, f), module_main |-> FALSE,
      found |-> FALSE, firstlineno |-> 1, nlines |-> 1] : f \in Files}
    \cup
    {[kind |-> "class", module_file |-> NoFile, module_main |-> m,
      found |-> FALSE, firstlineno |-> 1, nlines |-> 1] : m \in BOOLEAN}

Classes(h) == StaticClasses(h) \cup DynamicClasses(h)

\* type(None), a built-in class
NoneType ==
    [kind |-> "class", module_file |-> NoFile, module_main |-> FALSE,
     found |-> FALSE, firstlineno |-> 1, nlines |-> 1]

Names == {<<"B", "a", "r">>, <<"s", "r", "c">>}

ShortDocs == {<<>>, <<"h", "i">>}

DescChars == {"a", "\n", "\r"}

Descriptions == UNION {[1..n -> DescChars] : n \in 0..MaxDescLen}

NoItem == [kind |-> "None"]

HelpCommands(h) == {[kind |-> "HelpCommand", type |-> c] : c \in StaticClasses(h)}

Commands(h) ==
    {[kind |-> "Command", qualified_name |-> q, short_doc |-> d, callback |-> f] :
        q \in Names, d \in ShortDocs, f \in Callbacks(h)}

Cogs(h) ==
    {[kind |-> "Cog", qualified_name |-> q, description |-> d, type |-> c] :
        q \in Names, d \in Descriptions, c \in Classes(h)}

\* what SourceConverter hands to source_command
Items(h) == {NoItem} \cup HelpCommands(h) \cup Commands(h) \cup Cogs(h)

(***************************************************************************)
(* inspect                                                                 *)
(***************************************************************************)
\* unwrap that stays at the outermost wrapper
C4_unwrap_Outer(callback) == callback[1]

\* inspect.unwrap(f): follow __wrapped__ to the original function
unwrap(callback) == callback[Len(callback)]

\* type(source_item)
TypeOf(source_item) ==
    IF source_item.kind = "None" THEN NoneType ELSE source_item.type

\* inspect.getsourcefile(cls): the file of the class's module; OSError when
\* the module is __main__ without a file, TypeError for another module
\* without a file
getsourcefile(cls) ==
    IF cls.module_file # NoFile THEN [exc |-> "none", filename |-> cls.module_file]
    ELSE IF cls.module_main THEN [exc |-> "OSError", filename |-> NoFile]
    ELSE [exc |-> "TypeError", filename |-> NoFile]

\* inspect.getsourcelines(src): (number of lines, first line number), or
\* OSError when the source cannot be retrieved
getsourcelines(src) ==
    IF src.kind = "code"
    THEN IF src.retrievable
         THEN [exc |-> "none", len_lines |-> src.nlines,
               first_line_no |-> src.co_firstlineno]
         ELSE [exc |-> "OSError", len_lines |-> 0, first_line_no |-> 0]
    ELSE IF src.found
         THEN [exc |-> "none", len_lines |-> src.nlines,
               first_line_no |-> src.firstlineno]
         ELSE [exc |-> "OSError", len_lines |-> 0, first_line_no |-> 0]

(***************************************************************************)
(* BotSource                                                               *)
(***************************************************************************)
\* f"#L{first_line_no}-L{first_line_no+len(lines)-1}"
LinesExtension(first_line_no, len_lines) ==
    <<"#L">> \o Str(first_line_no) \o <<"-L">> \o Str(first_line_no + len_lines - 1)

\* x or None
OrNone(x) == IF x = None \/ x = 0 THEN None ELSE x

\* a URL built without the line suffix
C5_SourceUrl_NoSuffix(file_location, lines_extension) ==
    GithubBotRepo \o <<"/blob/main/">> \o file_location

\* f"{Client.github_bot_repo}/blob/main/{file_location}{lines_extension}"
SourceUrl(file_location, lines_extension) ==
    GithubBotRepo \o <<"/blob/main/">> \o file_location \o lines_extension

Raised(e, n) ==
    [exc |-> e, url |-> <<>>, file_location |-> <<>>, first_line_no |-> None,
     calls |-> n]

\* get_source_link, from the file name and the source object on: lines 58-73
LinkOf(h, wd, source_item, filename, src, n) ==
    LET isStr == source_item.kind = "str"
        lr == getsourcelines(src)
    IN  IF ~isStr /\ lr.exc = "OSError" THEN Raised("BadArgument", n + 1)
        ELSE
        LET calls == IF isStr THEN n ELSE n + 1
            first_line_no == IF isStr THEN None ELSE lr.first_line_no
            lines_extension ==
                IF isStr THEN <<>>
                ELSE LinesExtension(lr.first_line_no, lr.len_lines)
            rel == relative_to(Path(h, filename), Path(h, HostStr(h, wd)))
        IN  IF rel.exc # "none" THEN Raised(rel.exc, calls)
            ELSE
            LET file_location == as_posix(h, rel.path)
            IN  [exc |-> "none",
                 url |-> SourceUrl(file_location, lines_extension),
                 file_location |-> file_location,
                 first_line_no |-> OrNone(first_line_no),
                 calls |-> calls]

\* get_source_link(source_item) on host h with working directory wd; calls
\* counts the inspect lookups it makes
get_source_link(h, wd, source_item) ==
    IF source_item.kind = "Command"
    THEN LET src == unwrap(source_item.callback)
         IN  LinkOf(h, wd, source_item, src.co_filename, src, 0)
    ELSE LET src == TypeOf(source_item)
             fr == getsourcefile(src)
         IN  IF fr.exc = "TypeError" THEN Raised("BadArgument", 1)
             ELSE IF fr.exc # "none" THEN Raised(fr.exc, 1)
             ELSE LinkOf(h, wd, source_item, fr.filename, src, 1)

NoLink == Raised("none", 0)

\* the description taken whole instead of its first line
C7_FirstLine_Whole(description) ==
    IF description = <<>> THEN [exc |-> "IndexError", line |-> <<>>]
    ELSE [exc |-> "none", line |-> description]

\* description.splitlines()[0]
FirstLine(description) ==
    LET ls == splitlines(description)
    IN  IF ls = <<>> THEN [exc |-> "IndexError", line |-> <<>>]
        ELSE [exc |-> "none", line |-> ls[1]]

\* f"[Go to GitHub]({url})"
GoToGitHub(url) == <<"[Go to GitHub](">> \o url \o <<")">>

\* a footer that never shows the line
C8_LineText_Never(first_line) == <<>>

\* f":{first_line}" if first_line else ""
LineText(first_line) ==
    IF first_line # None /\ first_line # 0 THEN <<":">> \o Str(first_line) ELSE <<>>

NoEmbed ==
    [title |-> <<>>, description |-> <<>>, field_name |-> "", field_value |-> <<>>,
     thumbnail |-> "", footer |-> <<>>]

\* build_embed after its call of get_source_link: lines 79-91
build_embed(source_object, lk) ==
    LET isCommand == source_object.kind = "Command"
    IN  IF ~isCommand /\ source_object.kind # "Cog"
        THEN [exc |-> "AttributeError", embed |-> NoEmbed]
        ELSE
        LET fl == IF isCommand THEN [exc |-> "none", line |-> source_object.short_doc]
                  ELSE FirstLine(source_object.description)
            title == IF isCommand THEN <<"Command: ">> \o source_object.qualified_name
                     ELSE <<"Cog: ">> \o source_object.qualified_name
        IN  IF fl.exc # "none" THEN [exc |-> fl.exc, embed |-> NoEmbed]
            ELSE [exc |-> "none",
                  embed |-> [title |-> title,
                             description |-> fl.line,
                             field_name |-> "Source Code",
                             field_value |-> GoToGitHub(lk.url),
                             thumbnail |-> "",
                             footer |-> lk.file_location \o LineText(lk.first_line_no)]]

\* the embed of the branch "not source_item"
RepositoryEmbed ==
    [title |-> <<"Sir Robin's GitHub Repository">>, description |-> <<>>,
     field_name |-> "Repository", field_value |-> GoToGitHub(GithubBotRepo),
     thumbnail |-> "https://avatars1.githubusercontent.com/u/9919", footer |-> <<>>]

\* the embed of the branch isinstance(source_item, commands.HelpCommand)
HelpEmbed ==
    [title |-> <<"Help Command">>,
     description |-> <<"We use Discord.py's default help command.">>,
     field_name |-> "Repository", field_value |-> GoToGitHub(GithubBotRepo),
     thumbnail |-> "https://avatars1.githubusercontent.com/u/9919", footer |-> <<>>]

\* a dispatch that never takes the branch of the absent argument
C2_IsAbsent_Never(source_item) == FALSE

\* not source_item
IsAbsent(source_item) == source_item.kind = "None"

\* a dispatch without the short-circuit for the help command
C3_IsHelpCommand_Never(source_item) == FALSE

\* isinstance(source_item, commands.HelpCommand)
IsHelpCommand(source_item) == source_item.kind = "HelpCommand"

(***************************************************************************)
(* The state machine: one invocation of source_command at a time.          *)
(***************************************************************************)
Init ==
    /\ host \in Hosts
    /\ cwd \in Cwds
    /\ item = NoItem
    /\ pc = "idle"
    /\ exc = "none"
    /\ link = NoLink
    /\ embed = NoEmbed
    /\ sent = <<>>
    /\ lookups = 0

\* the framework dispatches `source` / `src` with the converted argument
Invoke ==
    /\ pc = "idle"
    /\ \E it \in Items(host) : item' = it
    /\ pc' = "source_command"
    /\ exc' = "none"
    /\ link' = NoLink
    /\ embed' = NoEmbed
    /\ sent' = <<>>
    /\ lookups' = 0
    /\ UNCHANGED <<host, cwd>>

\* source_command, lines 22-27
SendRepository ==
    /\ pc = "source_command"
    /\ IsAbsent(item)
    /\ sent' = Append(sent, RepositoryEmbed)
    /\ pc' = "done"
    /\ UNCHANGED <<host, cwd, item, exc, link, embed, lookups>>

\* source_command, lines 31-36
SendHelp ==
    /\ pc = "source_command"
    /\ ~IsAbsent(item)
    /\ IsHelpCommand(item)
    /\ sent' = Append(sent, HelpEmbed)
    /\ pc' = "done"
    /\ UNCHANGED <<host, cwd, item, exc, link, embed, lookups>>

\* source_command line 38 entering build_embed, line 77
GetSourceLink ==
    /\ pc = "source_command"
    /\ ~IsAbsent(item)
    /\ ~IsHelpCommand(item)
    /\ LET r == get_source_link(host, cwd, item)
       IN  /\ lookups' = lookups + r.calls
           /\ IF r.exc # "none"
              THEN /\ pc' = "raised"
                   /\ exc' = r.exc
                   /\ link' = link
              ELSE /\ pc' = "build_embed"
                   /\ exc' = exc
                   /\ link' = r
    /\ UNCHANGED <<host, cwd, item, embed, sent>>

\* build_embed, lines 79-91
BuildEmbed ==
    /\ pc = "build_embed"
    /\ LET r == build_embed(item, link)
       IN  IF r.exc # "none"
           THEN /\ pc' = "raised"
                /\ exc' = r.exc
                /\ embed' = embed
           ELSE /\ pc' = "send"
                /\ exc' = exc
                /\ embed' = r.embed
    /\ UNCHANGED <<host, cwd, item, link, sent, lookups>>

\* a send that repeats the message
C9_SendEmbed_Twice ==
    /\ pc = "send"
    /\ sent' = Append(Append(sent, embed), embed)
    /\ pc' = "done"
    /\ UNCHANGED <<host, cwd, item, exc, link, embed, lookups>>

\* source_command, line 39
SendEmbed ==
    /\ pc = "send"
    /\ sent' = Append(sent, embed)
    /\ pc' = "done"
    /\ UNCHANGED <<host, cwd, item, exc, link, embed, lookups>>

\* source_command has returned or raised: the framework is ready for the next
\* invocation; nothing of the finished one is kept
Return ==
    /\ pc \in {"done", "raised"}
    /\ pc' = "idle"
    /\ item' = NoItem
    /\ exc' = "none"
    /\ link' = NoLink
    /\ embed' = NoEmbed
    /\ sent' = <<>>
    /\ lookups' = 0
    /\ UNCHANGED <<host, cwd>>

Next ==
    \/ Invoke
    \/ SendRepository
    \/ SendHelp
    \/ GetSourceLink
    \/ BuildEmbed
    \/ SendEmbed
    \/ Return

Spec == Init /\ [][Next]_vars

(***************************************************************************)
(* Vocabulary of the properties.                                           *)
(***************************************************************************)
\* source_command has got past its dispatch on the argument
Dispatched == pc \notin {"idle", "source_command"}

\* get_source_link has returned a link in this invocation
Linked == link # NoLink

\* build_embed has returned an embed in this invocation
Built == embed # NoEmbed

\* the original function of a callback, the last of its __wrapped__ chain
Original(callback) == callback[Len(callback)]

\* the item has no source: a function whose lines cannot be retrieved, or a
\* class whose module has no file or whose definition is in no file
LacksSource(it) ==
    \/ it.kind = "Command" /\ ~Original(it.callback).retrievable
    \/ it.kind = "Cog" /\ (it.type.module_file = NoFile \/ ~it.type.found)

\* the item is defined in a source file
StaticItem(it) ==
    \/ it.kind = "Command" /\ Original(it.callback).retrievable
    \/ it.kind = "Cog" /\ it.type.module_file # NoFile /\ it.type.found

\* the file, first line and number of lines an item is defined at
DefFile(it) ==
    IF it.kind = "Command" THEN Original(it.callback).co_filename
    ELSE it.type.module_file

DefFirst(it) ==
    IF it.kind = "Command" THEN Original(it.callback).co_firstlineno
    ELSE it.type.firstlineno

DefLines(it) ==
    IF it.kind = "Command" THEN Original(it.callback).nlines ELSE it.type.nlines

\* the URL inside "[Go to GitHub](url)"
UrlOf(e) == SubSeq(e.field_value, 2, Len(e.field_value) - 1)

Positions(t, frag) == {i \in 1..Len(t) : t[i] = frag}

Min(S) == CHOOSE x \in S : \A y \in S : x <= y

DigitValue(c) == CHOOSE d \in 0..9 : Digits[d + 1] = c

IsNumeral(t) ==
    /\ t # <<>>
    /\ \A i \in 1..Len(t) : \E d \in 0..9 : Digits[d + 1] = t[i]
    /\ (Len(t) > 1 => t[1] # "0")

\* the number a decimal numeral denotes
RECURSIVE Value(_)
Value(t) ==
    IF Len(t) = 1 THEN DigitValue(t[1])
    ELSE 10 * Value(SubSeq(t, 1, Len(t) - 1)) + DigitValue(t[Len(t)])

\* the URL ends in "#L{n}-L{m}" with numerals n and m
HasRange(url) ==
    /\ Cardinality(Positions(url, "#L")) = 1
    /\ Cardinality(Positions(url, "-L")) = 1
    /\ Min(Positions(url, "#L")) < Min(Positions(url, "-L"))
    /\ IsNumeral(SubSeq(url, Min(Positions(url, "#L")) + 1, Min(Positions(url, "-L")) - 1))
    /\ IsNumeral(SubSeq(url, Min(Positions(url, "-L")) + 1, Len(url)))

RangeFirstText(url) ==
    SubSeq(url, Min(Positions(url, "#L")) + 1, Min(Positions(url, "-L")) - 1)

RangeFirst(url) == Value(RangeFirstText(url))

RangeLast(url) == Value(SubSeq(url, Min(Positions(url, "-L")) + 1, Len(url)))

\* the text before the first line break
BeforeBreak(d) ==
    LET br == {i \in 1..Len(d) : d[i] \in {"\n", "\r"}}
    IN  IF br = {} THEN d ELSE SubSeq(d, 1, Min(br) - 1)

\* a relative path written with forward slashes only
ForwardRelative(loc) ==
    /\ loc # <<>>
    /\ loc[1] \notin {"/", "\\", "C:"}
    /\ \A i \in 1..Len(loc) : loc[i] # "\\" /\ loc[i] # "C:"

\* loc is the path of the item's file below the working directory
BelowCwd(it, loc) ==
    \E f \in Files :
        /\ HostStr(host, f) = DefFile(it)
        /\ IsPrefix(cwd, f)
        /\ Len(f) > Len(cwd)
        /\ loc = Join(SubSeq(f, Len(cwd) + 1, Len(f)), "/")

\* the item's file lies under the working directory
UnderCwd(it) == \E f \in Files : HostStr(host, f) = DefFile(it) /\ IsPrefix(cwd, f)

(***************************************************************************)
(* Properties.                                                             *)
(***************************************************************************)
\* C1: an item that lacks source metadata makes get_source_link fail with
\* BadArgument and with nothing else: no other exception, no link.
C1_DynamicRejected ==
    (Dispatched /\ LacksSource(item)) =>
        (pc = "raised" /\ exc = "BadArgument" /\ link = NoLink /\ sent = <<>>)

\* C2: with no item, the one message sent links to exactly the repository
\* base URL, without "/blob/main/" and without "#L", and get_source_link is
\* not called.
C2_NoItemRepository ==
    (Dispatched /\ item = NoItem) =>
        /\ pc = "done"
        /\ Len(sent) = 1
        /\ UrlOf(sent[1]) = GithubBotRepo
        /\ Positions(UrlOf(sent[1]), "/blob/main/") = {}
        /\ Positions(UrlOf(sent[1]), "#L") = {}
        /\ lookups = 0
        /\ link = NoLink

C2_Witness == pc = "done" /\ item = NoItem /\ Len(sent) = 1

\* C3: for the help-command sentinel the message has the repository root URL
\* and the title "Help Command" wherever the sentinel's class is defined, and
\* no file or line lookup is made on it.
C3_HelpFixed ==
    (Dispatched /\ item.kind = "HelpCommand") =>
        /\ pc = "done"
        /\ Len(sent) = 1
        /\ sent[1].title = <<"Help Command">>
        /\ UrlOf(sent[1]) = GithubBotRepo
        /\ sent[1].footer = <<>>
        /\ lookups = 0
        /\ link = NoLink

C3_Witness ==
    /\ pc = "done"
    /\ item.kind = "HelpCommand"
    /\ item.type.module_file = HostStr(host, <<lib, help_py>>)
    /\ Len(sent) = 1

\* C4: for a statically defined Command the line lookup succeeds, and the URL
\* returned ends in "#L{n}-L{m}" where n is the first line of the unwrapped
\* callback, m - n + 1 is its number of source lines, m >= n and n >= 1.
C4_CommandRange ==
    (Dispatched /\ item.kind = "Command" /\ StaticItem(item)) =>
        /\ exc # "BadArgument"
        /\ Linked =>
            /\ HasRange(link.url)
            /\ RangeFirst(link.url) = DefFirst(item)
            /\ RangeLast(link.url) - RangeFirst(link.url) + 1 = DefLines(item)
            /\ RangeLast(link.url) >= RangeFirst(link.url)
            /\ RangeFirst(link.url) >= 1

C4_Witness ==
    /\ Linked
    /\ item.kind = "Command"
    /\ Len(item.callback) > 1
    /\ DefFirst(item) = MaxLine
    /\ DefLines(item) > 1
    /\ HasRange(link.url)

\* C5: every URL get_source_link returns is the repository base URL, then
\* "/blob/main/", then the file location it returns, then the line suffix:
\* "#L{first}-L{last}" when a line range is known, nothing otherwise.
C5_UrlShape ==
    Linked =>
        link.url = GithubBotRepo \o <<"/blob/main/">> \o link.file_location
                   \o (IF item.kind \in {"Command", "Cog"}
                       THEN <<"#L">> \o Str(DefFirst(item)) \o <<"-L">>
                            \o Str(DefFirst(item) + DefLines(item) - 1)
                       ELSE <<>>)

C5_Witness ==
    /\ Linked
    /\ item.kind = "Cog"
    /\ link.file_location # <<>>
    /\ DefFirst(item) + DefLines(item) - 1 > 9

\* C6 as stated: for every statically defined Command or Cog get_source_link
\* yields the file's path relative to the working root, with forward slashes
\* only, on every host.
C6_StaticLocated ==
    (Dispatched /\ StaticItem(item)) =>
        /\ Linked
        /\ ForwardRelative(link.file_location)
        /\ BelowCwd(item, link.file_location)

\* C6 amended: that holds for every statically defined item whose file lies
\* under the working directory; for a file outside it the path computation
\* fails with ValueError and no location is returned.
C6_StaticUnderCwdLocated ==
    (Dispatched /\ StaticItem(item)) =>
        IF UnderCwd(item)
        THEN /\ Linked
             /\ ForwardRelative(link.file_location)
             /\ BelowCwd(item, link.file_location)
        ELSE pc = "raised" /\ exc = "ValueError" /\ link = NoLink

C6_Witness ==
    /\ host = "windows"
    /\ Linked
    /\ StaticItem(item)
    /\ Cardinality(Positions(DefFile(item), "\\")) > 2
    /\ cwd = <<app>>
    /\ Cardinality(Positions(link.file_location, "/")) = 2

\* C7: the summary of a Cog has the title "Cog: {qualified_name}" and only the
\* first line of the cog's description; the summary of a Command has the
\* title "Command: {qualified_name}" and the command's short help text.
C7_TitleDescription ==
    Built =>
        IF item.kind = "Cog"
        THEN /\ embed.title = <<"Cog: ">> \o item.qualified_name
             /\ embed.description = BeforeBreak(item.description)
        ELSE /\ embed.title = <<"Command: ">> \o item.qualified_name
             /\ embed.description = item.short_doc

C7_Witness ==
    /\ Built
    /\ item.kind = "Cog"
    /\ item.qualified_name = <<"B", "a", "r">>
    /\ item.description = <<"a", "\n", "a">>
    /\ embed.description = <<"a">>

\* C8: the footer is "{file}:{first_line}", file being the link's location and
\* first_line the first number of the URL's line range; ":{line}" is there
\* exactly when the URL has a line-range suffix.
C8_Footer ==
    Built =>
        IF HasRange(link.url)
        THEN embed.footer = link.file_location \o <<":">> \o RangeFirstText(link.url)
        ELSE /\ embed.footer = link.file_location
             /\ Positions(link.url, "#L") = {}

C8_Witness ==
    /\ Built
    /\ HasRange(link.url)
    /\ RangeFirst(link.url) = MaxLine
    /\ Positions(embed.footer, ":") # {}

\* C9: an invocation sends at most one message: exactly one when it completes,
\* none when source lookup fails with BadArgument, which ends the invocation
\* before any send.
C9_AtMostOneMessage ==
    /\ Len(sent) <= 1
    /\ pc = "done" => Len(sent) = 1
    /\ pc # "done" => sent = <<>>
    /\ exc = "BadArgument" => (pc = "raised" /\ sent = <<>> /\ embed = NoEmbed)
    /\ pc = "raised" => exc # "none"
    /\ (Dispatched /\ item.kind = "Command" /\ LacksSource(item)) =>
           (pc = "raised" /\ exc = "BadArgument")

C9_Witness ==
    /\ pc = "raised"
    /\ exc = "BadArgument"
    /\ item.kind = "Command"
    /\ sent = <<>>

\* C10: for every Cog whose file and line range resolve, build_embed returns a
\* summary and does not fail, whatever the description, the empty one
\* included; its description is then the first line, or empty.
C10_CogEmbedTotal ==
    (item.kind = "Cog" /\ Linked /\ pc # "build_embed") =>
        /\ pc \in {"send", "done"}
        /\ exc = "none"
        /\ embed.description = BeforeBreak(item.description)

====
